---- MODULE Spec2Model ----
(***************************************************************************)
(* Model of the GGUF header parser (src/src/parser.rs).                    *)
(*                                                                         *)
(* The input is a byte buffer `buf`; the parser is a forward cursor `pos`  *)
(* over it.  Every nom combinator used by the source is an operator that   *)
(* takes the buffer and an offset and returns either                       *)
(*   [ok |-> TRUE,  pos |-> offset after, v |-> value, rd |-> bytes seen]  *)
(* or                                                                      *)
(*   [ok |-> FALSE, err |-> [code |-> ErrorKind, input |-> offset],        *)
(*    rd |-> bytes seen]                                                   *)
(* where `err` is nom::error::Error { input, code } with the input slice   *)
(* denoted by its offset in the buffer, and `rd` is the number of leading  *)
(* bytes of the buffer whose content the call has looked at.               *)
(*                                                                         *)
(* Unsigned 32- and 64-bit quantities are kept at their full width as      *)
(* little-endian sequences of 16-bit limbs (2 limbs for u32, 4 for u64),   *)
(* because TLC's integers are 32 bits wide.                                *)
(***************************************************************************)
EXTENDS Integers, Sequences, FiniteSets, TLC

VARIABLES buf, src, pos, readTo, pc, version, tensor_count, metadata_count,
          metadata, key, value_type, stack, err, result, outcome, last, steps

vars == <<buf, src, pos, readTo, pc, version, tensor_count, metadata_count,
          metadata, key, value_type, stack, err, result, outcome, last, steps>>

(***************************************************************************)
(* Bounds of the explored inputs.                                          *)
(***************************************************************************)
MaxArrayLen == 2
MaxEntries == 2

\* The number of nested array activations that the machine stack is sure to
\* hold.  The recursion of parse_gguf_metadata_value has no depth guard and
\* the depth at which the stack runs out depends on the build and on the
\* size of the thread's stack (thousands of levels for a default stack); the
\* figure is scaled down as the buffers are.
StackFrames == 2

None == [none |-> TRUE]

\* values of variables that hold nothing yet
NoWide == << >>
NoKey == << -1 >>
NoType == "None"
NoValue == << "None", 0 >>

Max(a, b) == IF a >= b THEN a ELSE b

(***************************************************************************)
(* enum GGUfMetadataValueType and its discriminants.                       *)
(***************************************************************************)
GGUfMetadataValueType ==
    << "Uint8", "Int8", "Uint16", "Int16", "Uint32", "Int32", "Float32",
       "Bool", "String", "Array", "Uint64", "Int64", "Float64" >>

Discriminant(t) == (CHOOSE c \in 1..13 : GGUfMetadataValueType[c] = t) - 1

(***************************************************************************)
(* Wide unsigned numbers: little-endian sequences of 16-bit limbs.         *)
(***************************************************************************)
IsZero(n) == \A k \in 1..Len(n) : n[k] = 0

\* n as a machine index, defined when only the two low limbs are used and
\* the value is below 2^31
Fits(n) == /\ \A k \in 3..Len(n) : n[k] = 0
           /\ (Len(n) >= 2 => n[2] < 32768)

Small(n) == n[1] + (IF Len(n) >= 2 THEN 65536 * n[2] ELSE 0)

\* i < n for a small natural i and a wide n (loop bound of `0..n`)
LtWide(i, n) == IF Fits(n) THEN i < Small(n) ELSE TRUE

\* n > r for a wide n and a small natural r
GtWide(n, r) == IF Fits(n) THEN Small(n) > r ELSE TRUE

Wide32(x) == << x % 65536, x \div 65536 >>
Wide64(x) == << x % 65536, x \div 65536, 0, 0 >>

(***************************************************************************)
(* nom error values.                                                       *)
(***************************************************************************)
Error(code, input) == [code |-> code, input |-> input]

Fail(code, input, rd) == [ok |-> FALSE, err |-> Error(code, input), rd |-> rd]

Done(p, v) == [ok |-> TRUE, pos |-> p, v |-> v, rd |-> p]

(***************************************************************************)
(* nom::number::complete readers.  Each needs its full width, else Eof.    *)
(***************************************************************************)
le_u8(b, i) ==
    IF Len(b) - i < 1 THEN Fail("Eof", i, i)
    ELSE Done(i + 1, b[i + 1])

le_i8(b, i) ==
    IF Len(b) - i < 1 THEN Fail("Eof", i, i)
    ELSE Done(i + 1, IF b[i + 1] >= 128 THEN b[i + 1] - 256 ELSE b[i + 1])

le_u16(b, i) ==
    IF Len(b) - i < 2 THEN Fail("Eof", i, i)
    ELSE Done(i + 2, b[i + 1] + 256 * b[i + 2])

le_i16(b, i) ==
    IF Len(b) - i < 2 THEN Fail("Eof", i, i)
    ELSE LET u == b[i + 1] + 256 * b[i + 2]
         IN  Done(i + 2, IF u >= 32768 THEN u - 65536 ELSE u)

le_u32(b, i) ==
    IF Len(b) - i < 4 THEN Fail("Eof", i, i)
    ELSE Done(i + 4, << b[i + 1] + 256 * b[i + 2], b[i + 3] + 256 * b[i + 4] >>)

le_i32(b, i) ==
    IF Len(b) - i < 4 THEN Fail("Eof", i, i)
    ELSE LET lo == b[i + 1] + 256 * b[i + 2]
             hi == b[i + 3] + 256 * b[i + 4]
         IN  Done(i + 4, (IF hi >= 32768 THEN hi - 65536 ELSE hi) * 65536 + lo)

le_u64(b, i) ==
    IF Len(b) - i < 8 THEN Fail("Eof", i, i)
    ELSE Done(i + 8, << b[i + 1] + 256 * b[i + 2], b[i + 3] + 256 * b[i + 4],
                        b[i + 5] + 256 * b[i + 6], b[i + 7] + 256 * b[i + 8] >>)

\* signed 64-bit and floating point values are kept as their bit patterns
le_i64(b, i) == le_u64(b, i)

le_f32(b, i) == le_u32(b, i)

le_f64(b, i) == le_u64(b, i)

(***************************************************************************)
(* nom::bytes::complete::take(len): Eof unless len bytes remain; the       *)
(* length test does not look at the bytes.                                 *)
(***************************************************************************)
take(len, b, i) ==
    IF GtWide(len, Len(b) - i) THEN Fail("Eof", i, i)
    ELSE Done(i + Small(len), SubSeq(b, i + 1, i + Small(len)))

(***************************************************************************)
(* nom::bytes::complete::tag: any mismatch, a short input included, is     *)
(* ErrorKind::Tag at the unchanged input.                                  *)
(***************************************************************************)
tag(t, b, i) ==
    IF Len(b) - i >= Len(t) /\ SubSeq(b, i + 1, i + Len(t)) = t
    THEN Done(i + Len(t), t)
    ELSE Fail("Tag", i, IF Len(b) < i + Len(t) THEN Max(i, Len(b)) ELSE i + Len(t))

GGUF == << 71, 71, 85, 70 >>

\* magic that skips 4 bytes without comparing them
magic_unchecked(b, i) ==
    IF Len(b) - i >= 4 THEN Done(i + 4, SubSeq(b, i + 1, i + 4))
    ELSE Fail("Tag", i, Max(i, Len(b)))

magic(b, i) == tag(GGUF, b, i)

(***************************************************************************)
(* std::str::from_utf8: TRUE iff the bytes are well-formed UTF-8.          *)
(***************************************************************************)
Cont(s, k) == k <= Len(s) /\ s[k] >= 128 /\ s[k] <= 191

RECURSIVE Utf8From(_, _)
Utf8From(s, k) ==
    IF k > Len(s) THEN TRUE
    ELSE LET c == s[k] IN
      IF c <= 127 THEN Utf8From(s, k + 1)
      ELSE IF c >= 194 /\ c <= 223
        THEN Cont(s, k + 1) /\ Utf8From(s, k + 2)
      ELSE IF c = 224
        THEN k + 1 <= Len(s) /\ s[k + 1] >= 160 /\ s[k + 1] <= 191
             /\ Cont(s, k + 2) /\ Utf8From(s, k + 3)
      ELSE IF c = 237
        THEN k + 1 <= Len(s) /\ s[k + 1] >= 128 /\ s[k + 1] <= 159
             /\ Cont(s, k + 2) /\ Utf8From(s, k + 3)
      ELSE IF c >= 225 /\ c <= 239
        THEN Cont(s, k + 1) /\ Cont(s, k + 2) /\ Utf8From(s, k + 3)
      ELSE IF c = 240
        THEN k + 1 <= Len(s) /\ s[k + 1] >= 144 /\ s[k + 1] <= 191
             /\ Cont(s, k + 2) /\ Cont(s, k + 3) /\ Utf8From(s, k + 4)
      ELSE IF c >= 241 /\ c <= 243
        THEN Cont(s, k + 1) /\ Cont(s, k + 2) /\ Cont(s, k + 3)
             /\ Utf8From(s, k + 4)
      ELSE IF c = 244
        THEN k + 1 <= Len(s) /\ s[k + 1] >= 128 /\ s[k + 1] <= 143
             /\ Cont(s, k + 2) /\ Cont(s, k + 3) /\ Utf8From(s, k + 4)
      ELSE FALSE

from_utf8(s) == Utf8From(s, 1)

(***************************************************************************)
(* nom::combinator::map_res: the inner parser runs first and its error is  *)
(* passed through; when the conversion fails, whatever it returned is      *)
(* dropped and the error is ErrorKind::MapRes at the input map_res was     *)
(* given.                                                                  *)
(***************************************************************************)
map_res_err(i, rd) == Fail("MapRes", i, rd)

\* gguf_string that validates the bytes present before it checks that the
\* declared length is available
gguf_string_validate_first(b, i) ==
    LET len == le_u64(b, i) IN
    IF ~len.ok THEN len
    ELSE IF ~from_utf8(SubSeq(b, len.pos + 1, Len(b)))
         THEN map_res_err(len.pos, Len(b))
         ELSE LET data == take(len.v, b, len.pos) IN
              IF ~data.ok THEN [data EXCEPT !.rd = len.pos]
              ELSE Done(data.pos, data.v)

(***************************************************************************)
(* fn gguf_string                                                          *)
(***************************************************************************)
gguf_string(b, i) ==
    LET len == le_u64(b, i) IN
    IF ~len.ok THEN len
    ELSE LET data == take(len.v, b, len.pos) IN
         IF ~data.ok THEN [data EXCEPT !.rd = len.pos]
         ELSE IF ~from_utf8(data.v) THEN map_res_err(len.pos, data.pos)
         ELSE Done(data.pos, data.v)

(***************************************************************************)
(* impl TryFrom<u32> for GGUfMetadataValueType                             *)
(***************************************************************************)
try_from(item) ==
    IF item[2] = 0 /\ item[1] <= 12
    THEN [ok |-> TRUE, v |-> GGUfMetadataValueType[item[1] + 1]]
    ELSE [ok |-> FALSE, msg |-> << "invalid metadata type", item >>]

(***************************************************************************)
(* fn parse_gguf_metadata_value_type                                       *)
(***************************************************************************)
parse_gguf_metadata_value_type(b, i) ==
    LET c == le_u32(b, i) IN
    IF ~c.ok THEN c
    ELSE LET t == try_from(c.v) IN
         IF t.ok THEN Done(c.pos, t.v) ELSE map_res_err(i, c.pos)

(***************************************************************************)
(* fn parse_gguf_metadata_value, the arms that are not Array.              *)
(***************************************************************************)
\* a GGUFMetadataValue: the variant, then its payload
Value(t, v) == << t, v >>

map(r, t) == IF r.ok THEN [r EXCEPT !.v = Value(t, r.v)] ELSE r

\* a bool read as "any non-zero byte is true"
parse_bool_nonzero(b, i) ==
    LET r == le_u8(b, i) IN
    IF ~r.ok THEN r
    ELSE Done(r.pos, Value("Bool", r.v # 0))

parse_bool(b, i) ==
    LET r == le_u8(b, i) IN
    IF ~r.ok THEN r
    ELSE IF r.v = 0 THEN Done(r.pos, Value("Bool", FALSE))
    ELSE IF r.v = 1 THEN Done(r.pos, Value("Bool", TRUE))
    ELSE map_res_err(i, r.pos)

parse_leaf(t, b, i) ==
    CASE t = "Uint8"   -> map(le_u8(b, i), t)
      [] t = "Int8"    -> map(le_i8(b, i), t)
      [] t = "Uint16"  -> map(le_u16(b, i), t)
      [] t = "Int16"   -> map(le_i16(b, i), t)
      [] t = "Uint32"  -> map(le_u32(b, i), t)
      [] t = "Int32"   -> map(le_i32(b, i), t)
      [] t = "Float32" -> map(le_f32(b, i), t)
      [] t = "Uint64"  -> map(le_u64(b, i), t)
      [] t = "Int64"   -> map(le_i64(b, i), t)
      [] t = "Float64" -> map(le_f64(b, i), t)
      [] t = "Bool"    -> parse_bool(b, i)
      [] t = "String"  -> map(gguf_string(b, i), t)

(***************************************************************************)
(* Input buffers.  A well-formed buffer is the encoding of a header in the *)
(* layout the parser reads (magic, version, tensor count, metadata count,  *)
(* entries), followed by bytes that belong to the tensor section.  The     *)
(* other buffers are well-formed ones cut short or with one byte changed,  *)
(* and a few hand-written malformed ones.                                  *)
(***************************************************************************)
LeafTypes == { GGUfMetadataValueType[c] : c \in 1..13 } \ { "Array" }

FixedTypes == LeafTypes \ { "String" }

Width(t) ==
    CASE t \in { "Uint8", "Int8", "Bool" } -> 1
      [] t \in { "Uint16", "Int16" } -> 2
      [] t \in { "Uint32", "Int32", "Float32" } -> 4
      [] t \in { "Uint64", "Int64", "Float64" } -> 8

\* the k-th sample value of a leaf type
Sample(t, k) ==
    CASE t = "Uint8"   -> 200 + k
      [] t = "Int8"    -> 0 - k
      [] t = "Uint16"  -> 513 * k
      [] t = "Int16"   -> 0 - 300 * k
      [] t = "Uint32"  -> << 4096 + k, 65535 >>
      [] t = "Int32"   -> 0 - 70000 * k
      [] t = "Float32" -> << 50604 + k, 14119 >>
      [] t = "Uint64"  -> << k, 2, 3, 65535 >>
      [] t = "Int64"   -> << 65535, 65535, 65535, 65535 - k >>
      [] t = "Float64" -> << k, 0, 0, 16368 >>
      [] t = "Bool"    -> (k % 2 = 1)
      [] t = "String"  -> IF k = 1 THEN << 97, 98 >>
                          ELSE IF k = 2 THEN << 195, 169 >> ELSE << >>

\* a value to encode: the type, the payload and, for an array, the element
\* type
Leaf(t, v) == << t, v >>

Arr(et, elems) == << "Array", elems, et >>

B16(x) == << x % 256, x \div 256 >>

EncWide(n) == IF Len(n) = 2 THEN B16(n[1]) \o B16(n[2])
              ELSE B16(n[1]) \o B16(n[2]) \o B16(n[3]) \o B16(n[4])

EncString(s) == EncWide(Wide64(Len(s))) \o s

EncLeaf(t, v) ==
    CASE t = "Uint8"  -> << v >>
      [] t = "Int8"   -> << v % 256 >>
      [] t = "Uint16" -> B16(v)
      [] t = "Int16"  -> B16(v % 65536)
      [] t = "Int32"  -> B16(v % 65536) \o B16((v \div 65536) % 65536)
      [] t = "Bool"   -> << IF v THEN 1 ELSE 0 >>
      [] t = "String" -> EncString(v)
      [] OTHER        -> EncWide(v)

RECURSIVE EncAll(_), Enc(_)
Enc(av) ==
    IF av[1] = "Array"
    THEN EncWide(Wide32(Discriminant(av[3]))) \o EncWide(Wide64(Len(av[2])))
         \o EncAll(av[2])
    ELSE EncLeaf(av[1], av[2])

EncAll(avs) == IF avs = << >> THEN << >> ELSE Enc(Head(avs)) \o EncAll(Tail(avs))

\* the value the parser is expected to build
RECURSIVE Strip(_)
Strip(av) ==
    IF av[1] = "Array"
    THEN Value("Array", [k \in 1..Len(av[2]) |-> Strip(av[2][k])])
    ELSE Value(av[1], av[2])

Samples(t, n) == [k \in 1..n |-> Leaf(t, Sample(t, k))]

LeafTypeSeq ==
    << "Uint8", "Int8", "Uint16", "Int16", "Uint32", "Int32", "Float32",
       "Bool", "String", "Uint64", "Int64", "Float64" >>

NestedValues ==
    << Arr("Array", << >>),
       Arr("Array", << Arr("Uint8", Samples("Uint8", 1)), Arr("Uint8", << >>) >>),
       Arr("Array", << Arr("Array", << Arr("Bool", Samples("Bool", 2)) >>) >>),
       Arr("Array", << Arr("String", Samples("String", 2)), Arr("Array", << >>) >>),
       Arr("Array", << Arr("Array", << Arr("Array",
             << Arr("Uint16", Samples("Uint16", 2)) >>) >>) >>),
       Arr("Array", << Arr("Array", << Arr("Array",
             << Arr("Uint8", << >>) >>) >>) >>) >>

\* every leaf type once, every leaf type in arrays of 0..MaxArrayLen
\* elements, and arrays of arrays
Values ==
    [c \in 1..12 |-> Leaf(LeafTypeSeq[c], Sample(LeafTypeSeq[c], 1))]
    \o [j \in 1..(12 * (MaxArrayLen + 1)) |->
          Arr(LeafTypeSeq[((j - 1) % 12) + 1],
              Samples(LeafTypeSeq[((j - 1) % 12) + 1], (j - 1) \div 12))]
    \o NestedValues

Entry(k, av) == [key |-> k, av |-> av]

SmallEntries ==
    << Entry(<< 107 >>, Leaf("Uint8", 7)),
       Entry(<< 107 >>, Leaf("String", << 97 >>)),
       Entry(<< 195, 169 >>, Arr("Bool", Samples("Bool", 2))) >>

\* the choices of 2..MaxEntries entries among SmallEntries
EntryChoices ==
    UNION { [1..n -> 1..Len(SmallEntries)] : n \in 2..MaxEntries }

\* the headers that well-formed buffers are made from
EmptyHeader ==
    [version |-> << 3, 0 >>, tensor_count |-> << 0, 0, 0, 0 >>, entries |-> << >>]

OneHeader(c) ==
    [version |-> << 2, 0 >>, tensor_count |-> << 291, 0, 0, 0 >>,
     entries |-> << Entry(IF c % 3 = 0 THEN << >> ELSE << 107 >>, Values[c]) >>]

ManyHeader(f) ==
    [version |-> << 772, 258 >>, tensor_count |-> << 1, 2, 3, 65535 >>,
     entries |-> [k \in 1..Len(f) |-> SmallEntries[f[k]]]]

EncEntry(e) ==
    EncString(e.key) \o EncWide(Wide32(Discriminant(e.av[1]))) \o Enc(e.av)

RECURSIVE EncEntries(_)
EncEntries(es) ==
    IF es = << >> THEN << >> ELSE EncEntry(Head(es)) \o EncEntries(Tail(es))

Trailer == << 9, 255 >>

EncodeHeader(h) ==
    GGUF \o EncWide(h.version) \o EncWide(h.tensor_count)
    \o EncWide(Wide64(Len(h.entries))) \o EncEntries(h.entries)

ExpectedHeader(h) ==
    [version |-> h.version, tensor_count |-> h.tensor_count,
     metadata |-> [k \in 1..Len(h.entries) |->
                     [key |-> h.entries[k].key,
                      value_type |-> h.entries[k].av[1],
                      value |-> Strip(h.entries[k].av)]]]

DamageBytes == { 2, 13, 255 }

Prefix16 == GGUF \o << 2, 0, 0, 0 >> \o << 1, 0, 0, 0, 0, 0, 0, 0 >>

One64 == << 1, 0, 0, 0, 0, 0, 0, 0 >>

Huge64 == << 255, 255, 255, 255, 255, 255, 255, 255 >>

ArrayTag == << 9, 0, 0, 0 >>

RawBuffers ==
    { \* a key whose length exceeds the bytes left, which are not UTF-8
      Prefix16 \o One64 \o << 200, 0, 0, 0, 0, 0, 0, 0 >> \o << 255, 254 >>,
      \* a String value whose huge length exceeds the bytes left
      Prefix16 \o One64 \o << 1, 0, 0, 0, 0, 0, 0, 0, 107 >> \o << 8, 0, 0, 0 >>
        \o << 0, 0, 0, 0, 0, 0, 0, 128 >> \o << 192, 128, 255 >>,
      \* counts far beyond the bytes present, arrays nested in arrays
      Prefix16 \o Huge64 \o << 1, 0, 0, 0, 0, 0, 0, 0, 107 >> \o ArrayTag
        \o ArrayTag \o Huge64 \o ArrayTag \o Huge64 \o << 0, 0, 0, 0 >> \o Huge64
        \o << 1, 2, 3 >>,
      \* the same, one level deeper and cut after the last count
      Prefix16 \o One64 \o << 1, 0, 0, 0, 0, 0, 0, 0, 107 >> \o ArrayTag
        \o ArrayTag \o One64 \o ArrayTag \o One64 \o ArrayTag \o One64
        \o ArrayTag \o One64,
      \* more entries declared than present
      Prefix16 \o << 0, 0, 1, 0, 0, 0, 0, 0 >>
        \o << 0, 0, 0, 0, 0, 0, 0, 0 >> \o << 0, 0, 0, 0 >> \o << 5 >>
        \o << 0, 0, 0, 0, 0, 0, 0, 0 >> \o << 7, 0, 0, 0 >> \o << 1 >>,
      \* a bool array with a bad element
      Prefix16 \o One64 \o << 0, 0, 0, 0, 0, 0, 0, 0 >> \o ArrayTag
        \o << 7, 0, 0, 0 >> \o << 3, 0, 0, 0, 0, 0, 0, 0 >> \o << 1, 0, 128 >>,
      \* a type tag that only differs from a valid one in its high bytes
      Prefix16 \o One64 \o << 0, 0, 0, 0, 0, 0, 0, 0 >> \o << 7, 0, 1, 0 >> \o << 1 >> }

\* the buffers made from one header: whole, cut short, one byte changed
Damaged(h, changes) ==
    LET e == EncodeHeader(h) IN
    { [buf |-> e \o Trailer, kind |-> "whole"] }
    \cup { [buf |-> SubSeq(e, 1, n), kind |-> "cut"] : n \in 0..(Len(e) - 1) }
    \cup { [buf |-> [e \o Trailer EXCEPT ![x[1]] = x[2]], kind |-> "changed"] :
             x \in { y \in (1..Len(e)) \X changes : e[y[1]] # y[2] } }

NoHeader == [version |-> NoWide, tensor_count |-> NoWide, entries |-> << >>]

(***************************************************************************)
(* State after construction: the call GGUFHeader::read(data) has been made *)
(* and parse_gguf_header is about to read the magic.                       *)
(***************************************************************************)
Init ==
    /\ \/ \E inp \in Damaged(EmptyHeader, DamageBytes) :
            /\ buf = inp.buf
            /\ src = [kind |-> inp.kind, header |-> EmptyHeader]
       \/ \E c \in 1..Len(Values) : \E inp \in Damaged(OneHeader(c), DamageBytes) :
            /\ buf = inp.buf
            /\ src = [kind |-> inp.kind, header |-> OneHeader(c)]
       \/ \E f \in EntryChoices : \E inp \in Damaged(ManyHeader(f), { 255 }) :
            /\ buf = inp.buf
            /\ src = [kind |-> inp.kind, header |-> ManyHeader(f)]
       \/ /\ buf \in RawBuffers
          /\ src = [kind |-> "raw", header |-> NoHeader]
    /\ pos = 0
    /\ readTo = 0
    /\ pc = "magic"
    /\ version = NoWide
    /\ tensor_count = NoWide
    /\ metadata_count = NoWide
    /\ metadata = << >>
    /\ key = NoKey
    /\ value_type = NoType
    /\ stack = << >>
    /\ err = None
    /\ result = None
    /\ outcome = "running"
    /\ last = [op |-> "call", at |-> 0, v |-> NoValue]
    /\ steps = 0

\* a failed step that returns the entries decoded so far as a header
Propagate_partial(r, op) ==
    /\ pc' = "done"
    /\ err' = r.err
    /\ result' = [ok |-> TRUE, rest |-> pos,
                  header |-> [version |-> version, tensor_count |-> tensor_count,
                              metadata |-> metadata]]
    /\ readTo' = Max(readTo, r.rd)
    /\ last' = [op |-> op, at |-> pos, v |-> NoValue]
    /\ steps' = steps + 1
    /\ UNCHANGED << buf, src, pos, version, tensor_count, metadata_count,
                    metadata, key, value_type, stack, outcome >>

\* a `?` on a failed step: the error leaves parse_gguf_header unchanged
Propagate(r, op) ==
    /\ pc' = "failed"
    /\ err' = r.err
    /\ result' = [ok |-> FALSE, err |-> r.err]
    /\ readTo' = Max(readTo, r.rd)
    /\ last' = [op |-> op, at |-> pos, v |-> NoValue]
    /\ steps' = steps + 1
    /\ UNCHANGED << buf, src, pos, version, tensor_count, metadata_count,
                    metadata, key, value_type, stack, outcome >>

Advance(r, op, next) ==
    /\ pc' = next
    /\ pos' = r.pos
    /\ readTo' = Max(readTo, r.rd)
    /\ last' = [op |-> op, at |-> pos, v |-> NoValue]
    /\ steps' = steps + 1
    /\ UNCHANGED << buf, src, err, result, outcome >>

(***************************************************************************)
(* fn parse_gguf_header, one action per statement.                         *)
(***************************************************************************)
header_magic ==
    /\ pc = "magic"
    /\ LET r == magic(buf, pos) IN
       IF ~r.ok THEN Propagate(r, "magic")
       ELSE /\ Advance(r, "magic", "version")
            /\ UNCHANGED << version, tensor_count, metadata_count, metadata,
                            key, value_type, stack >>

header_version ==
    /\ pc = "version"
    /\ LET r == le_u32(buf, pos) IN
       IF ~r.ok THEN Propagate(r, "version")
       ELSE /\ Advance(r, "version", "tensor_count")
            /\ version' = r.v
            /\ UNCHANGED << tensor_count, metadata_count, metadata, key,
                            value_type, stack >>

header_tensor_count ==
    /\ pc = "tensor_count"
    /\ LET r == le_u64(buf, pos) IN
       IF ~r.ok THEN Propagate(r, "tensor_count")
       ELSE /\ Advance(r, "tensor_count", "metadata_count")
            /\ tensor_count' = r.v
            /\ UNCHANGED << version, metadata_count, metadata, key,
                            value_type, stack >>

header_metadata_count ==
    /\ pc = "metadata_count"
    /\ LET r == le_u64(buf, pos) IN
       IF ~r.ok THEN Propagate(r, "metadata_count")
       ELSE /\ Advance(r, "metadata_count", "entry")
            /\ metadata_count' = r.v
            /\ UNCHANGED << version, tensor_count, metadata, key, value_type,
                            stack >>

(***************************************************************************)
(* fn parse_gguf_metadata: the key and the type tag of one entry of the    *)
(* loop `for _ in 0..metadata_count`.                                      *)
(***************************************************************************)
metadata_key ==
    /\ pc = "entry"
    /\ LtWide(Len(metadata), metadata_count)
    /\ LET r == gguf_string(buf, pos) IN
       IF ~r.ok THEN Propagate(r, "key")
       ELSE /\ Advance(r, "key", "type")
            /\ key' = r.v
            /\ UNCHANGED << version, tensor_count, metadata_count, metadata,
                            value_type, stack >>

metadata_value_type ==
    /\ pc = "type"
    /\ LET r == parse_gguf_metadata_value_type(buf, pos) IN
       IF ~r.ok THEN Propagate(r, "type")
       ELSE /\ Advance(r, "type", "value")
            /\ value_type' = r.v
            /\ UNCHANGED << version, tensor_count, metadata_count, metadata,
                            key, stack >>

(***************************************************************************)
(* fn parse_gguf_metadata_value.  The recursion through                    *)
(* count(parse_gguf_metadata_value(value_type), len) is a stack of frames, *)
(* one per array being filled.                                             *)
(***************************************************************************)
Top == stack[Len(stack)]

CurType == IF stack = << >> THEN value_type ELSE Top.et

\* count(f, n) calls f again while fewer than n elements are collected
Wanting == IF stack = << >> THEN TRUE ELSE LtWide(Len(Top.items), Top.len)

\* hand a finished value to whoever asked for it: the enclosing array, or
\* parse_gguf_metadata, whose entry parse_gguf_header pushes
Deliver(st, v) ==
    IF st = << >>
    THEN /\ metadata' = Append(metadata, [key |-> key, value_type |-> value_type,
                                          value |-> v])
         /\ stack' = st
         /\ pc' = "entry"
    ELSE /\ stack' = [st EXCEPT ![Len(st)].items = Append(@, v)]
         /\ metadata' = metadata
         /\ pc' = "value"

Step(r, op, at) ==
    /\ pos' = r.pos
    /\ readTo' = Max(readTo, r.rd)
    /\ last' = [op |-> op, at |-> at, v |-> r.v]
    /\ steps' = steps + 1
    /\ UNCHANGED << buf, src, err, result, outcome, version, tensor_count,
                    metadata_count, key, value_type >>

value_leaf ==
    /\ pc = "value"
    /\ Wanting
    /\ CurType # "Array"
    /\ LET r == parse_leaf(CurType, buf, pos) IN
       IF ~r.ok THEN Propagate(r, "leaf")
       ELSE /\ Step(r, "leaf", pos)
            /\ Deliver(stack, r.v)

value_array_open ==
    /\ pc = "value"
    /\ Wanting
    /\ CurType = "Array"
    /\ \/ LET t == parse_gguf_metadata_value_type(buf, pos) IN
          IF ~t.ok THEN Propagate(t, "array_open")
          ELSE LET len == le_u64(buf, t.pos) IN
               IF ~len.ok THEN Propagate(len, "array_open")
               ELSE /\ Step([len EXCEPT !.v = NoValue], "array_open", pos)
                    /\ stack' = Append(stack, [et |-> t.v, len |-> len.v,
                                               items |-> << >>, at |-> pos])
                    /\ pc' = "value"
                    /\ metadata' = metadata
       \/ \* one more level of recursion than the machine stack holds: the
          \* runtime aborts the process (stack overflow), which is neither
          \* an Err nor a panic, and nothing returns
          /\ Len(stack) >= StackFrames
          /\ pc' = "aborted"
          /\ outcome' = "abort"
          /\ last' = [op |-> "array_open", at |-> pos, v |-> NoValue]
          /\ steps' = steps + 1
          /\ UNCHANGED << buf, src, pos, readTo, version, tensor_count,
                          metadata_count, metadata, key, value_type, stack,
                          err, result >>

value_array_close ==
    /\ pc = "value"
    /\ ~Wanting
    /\ LET v == Value("Array", Top.items) IN
       /\ Step([pos |-> pos, rd |-> pos, v |-> v], "array_close", Top.at)
       /\ Deliver(SubSeq(stack, 1, Len(stack) - 1), v)

header_done ==
    /\ pc = "entry"
    /\ ~LtWide(Len(metadata), metadata_count)
    /\ pc' = "done"
    /\ result' = [ok |-> TRUE, rest |-> pos,
                  header |-> [version |-> version, tensor_count |-> tensor_count,
                              metadata |-> metadata]]
    /\ last' = [op |-> "done", at |-> pos, v |-> NoValue]
    /\ steps' = steps + 1
    /\ UNCHANGED << buf, src, pos, readTo, version, tensor_count,
                    metadata_count, metadata, key, value_type, stack, err,
                    outcome >>

(***************************************************************************)
(* GGUFHeader::read: expect() on the parse result.                         *)
(***************************************************************************)
read ==
    /\ pc \in { "done", "failed" }
    /\ outcome = "running"
    /\ outcome' = IF result.ok THEN "Ok" ELSE "panic"
    /\ steps' = steps + 1
    /\ UNCHANGED << buf, src, pos, readTo, pc, version, tensor_count,
                    metadata_count, metadata, key, value_type, stack, err,
                    result, last >>

Next ==
    \/ header_magic
    \/ header_version
    \/ header_tensor_count
    \/ header_metadata_count
    \/ metadata_key
    \/ metadata_value_type
    \/ value_leaf
    \/ value_array_open
    \/ value_array_close
    \/ header_done
    \/ read

Spec == Init /\ [][Next]_vars

(***************************************************************************)
(* Properties.                                                             *)
(***************************************************************************)
HasMagic == IF Len(buf) >= 4 THEN SubSeq(buf, 1, 4) = GGUF ELSE FALSE

Failed == pc = "failed"

\* the value handed over by the last leaf step
Delivered ==
    IF stack = << >> THEN metadata[Len(metadata)].value
    ELSE Top.items[Len(Top.items)]

\* C1: GGUFHeader::read never panics or aborts the process; every malformed
\* input is returned to the caller as an Err.
C1_ReadNeverPanics == outcome \notin { "panic", "abort" }

\* C2: a buffer holding the magic, version v, tensor count t, metadata count
\* k and k well-formed entries parses to the header with version v, tensor
\* count t and exactly those k entries in file order, duplicate keys kept;
\* the metadata of any returned header is as long as the declared count.
C2_WellFormedDecodes ==
    /\ src.kind = "whole" =>
         /\ ~Failed
         /\ pc # "aborted"
         /\ pc = "done" =>
              /\ result.ok
              /\ result.header = ExpectedHeader(src.header)
              /\ Len(result.header.metadata) = Len(src.header.entries)
              /\ result.rest = Len(buf) - Len(Trailer)
    /\ pc = "done" =>
         /\ Fits(metadata_count)
         /\ Len(result.header.metadata) = Small(metadata_count)

\* C3: when the first 4 bytes are not "GGUF" (a buffer shorter than 4 bytes
\* included) the parse fails with the magic's error at once: nothing after
\* the magic is read or stored and the cursor stays at offset 0.
C3_BadMagic ==
    (pc # "magic" /\ ~HasMagic) =>
       /\ Failed
       /\ last.op = "magic"
       /\ err = Error("Tag", 0)
       /\ pos = 0
       /\ readTo <= 4
       /\ version = NoWide /\ tensor_count = NoWide /\ metadata_count = NoWide
       /\ metadata = << >> /\ key = NoKey /\ stack = << >>

C3_Witness ==
    /\ Failed
    /\ err.code = "Tag"
    /\ Len(buf) >= 24
    /\ buf[1] = 71
    /\ outcome # "running"

\* C4: no partial header: once a step of any entry fails (key, type tag or
\* value, nested array elements included) the parse is failed with that
\* error, no header is returned, and nothing more is decoded.
C4_NoPartialHeader ==
    /\ [](err # None => /\ Failed
                        /\ result = [ok |-> FALSE, err |-> err])
    /\ [](result # None /\ result.ok =>
             /\ pc = "done"
             /\ ~LtWide(Len(result.header.metadata), metadata_count))
    /\ [][Failed => /\ pc' = "failed" /\ result' = result /\ err' = err
                    /\ metadata' = metadata /\ stack' = stack /\ pos' = pos
                    /\ readTo' = readTo /\ last' = last]_vars

C4_Witness ==
    /\ Failed
    /\ Len(metadata) >= 1
    /\ stack # << >>
    /\ Top.items # << >>
    /\ outcome # "running"

\* C5: a string (key or String value) whose declared length exceeds the
\* bytes left after the length field fails with Eof, before UTF-8 validation
\* and without looking at any byte past the length field, even when the
\* bytes left are not UTF-8.
StringStep ==
    IF last.op = "key" THEN TRUE
    ELSE IF last.op = "leaf" THEN CurType = "String" ELSE FALSE

Overlong ==
    IF StringStep /\ Len(buf) - last.at >= 8
    THEN GtWide(le_u64(buf, last.at).v, Len(buf) - last.at - 8)
    ELSE FALSE

C5_TruncatedString ==
    Overlong =>
       /\ Failed
       /\ err = Error("Eof", last.at + 8)
       /\ readTo <= last.at + 8
       /\ readTo <= Len(buf)
       /\ pos = last.at

C5_Witness ==
    /\ Overlong
    /\ Len(buf) > last.at + 8
    /\ ~from_utf8(SubSeq(buf, last.at + 9, Len(buf)))
    /\ last.op = "leaf"

\* C6: a type tag is 4 bytes read as a little-endian u32 c; c in 0..12 gives
\* the type with discriminant c, and c > 12 fails with an error that is
\* specific to unknown type tags, carries c, and differs from the errors of
\* an invalid bool and of invalid UTF-8.
InvalidBoolError == parse_bool(<< 2 >>, 0).err

InvalidUtf8Error == gguf_string(<< 1, 0, 0, 0, 0, 0, 0, 0, 255 >>, 0).err

C6_TypeTag ==
    (last.op = "type" /\ Len(buf) - last.at >= 4) =>
       LET c == le_u32(buf, last.at).v IN
       IF c[2] = 0 /\ c[1] <= 12
       THEN /\ ~Failed
            /\ Discriminant(value_type) = c[1]
            /\ pos = last.at + 4
       ELSE /\ Failed
            /\ le_u32(buf, err.input).v = c
            /\ err.code \notin { InvalidBoolError.code, InvalidUtf8Error.code }

\* C7: a Bool is 1 byte: 0 is false, 1 is true, and every other byte fails
\* with the invalid-bool error at that byte and yields no value, at top
\* level and as an array element.
C7_Bool ==
    (last.op = "leaf" /\ CurType = "Bool" /\ Len(buf) > last.at) =>
       LET b == buf[last.at + 1] IN
       IF b <= 1
       THEN /\ ~Failed
            /\ last.v = Value("Bool", b = 1)
            /\ Delivered = last.v
            /\ pos = last.at + 1
       ELSE /\ Failed
            /\ err = Error("MapRes", last.at)
            /\ buf[err.input + 1] = b
            /\ last.v = NoValue
            /\ pos = last.at

C7_Witness ==
    /\ last.op = "leaf"
    /\ CurType = "Bool"
    /\ stack # << >>
    /\ Top.items # << >>
    /\ Len(buf) > last.at
    /\ buf[last.at + 1] = 255
    /\ Failed

\* C8: an array with element count 0 and any valid element type decodes to
\* the empty sequence, consuming exactly the 12 bytes of type tag and count
\* and looking at no byte after them.
ZeroCountAt(at) ==
    IF Len(buf) - at >= 12
    THEN /\ try_from(le_u32(buf, at).v).ok
         /\ IsZero(le_u64(buf, at + 4).v)
    ELSE FALSE

C8_EmptyArray ==
    /\ (last.op = "array_open" /\ ZeroCountAt(last.at)) =>
          /\ ~Failed
          /\ pc # "aborted"
          /\ Top.at = last.at
          /\ Top.items = << >>
          /\ ~Wanting
          /\ pos = last.at + 12
          /\ readTo = last.at + 12
    /\ (last.op = "array_close" /\ ZeroCountAt(last.at)) =>
          /\ last.v = Value("Array", << >>)
          /\ pos = last.at + 12
          /\ readTo = last.at + 12

\* C9: an array of N elements of a fixed-width type of width W, all present
\* and valid, decodes to exactly those N elements in input order and
\* consumes exactly 4 + 8 + N*W bytes.
ElemType(at) == try_from(le_u32(buf, at).v).v

FixedArrayAt(at) ==
    IF Len(buf) - at >= 12 /\ try_from(le_u32(buf, at).v).ok
    THEN ElemType(at) \in FixedTypes
    ELSE FALSE

\* the buffer holds n valid elements of type t from offset p on
Holds(t, n, p) ==
    /\ p <= Len(buf)
    /\ n <= (Len(buf) - p) \div Width(t)
    /\ t = "Bool" => \A k \in 1..n : buf[p + k] <= 1

C9_FixedWidthArray ==
    /\ (last.op = "array_open" /\ FixedArrayAt(last.at)) =>
         LET n == le_u64(buf, last.at + 4).v IN
         IF Fits(n)
         THEN Holds(ElemType(last.at), Small(n), last.at + 12)
                => pc \notin { "failed", "aborted" }
         ELSE TRUE
    /\ (last.op = "array_close" /\ FixedArrayAt(last.at)) =>
         LET n == Small(le_u64(buf, last.at + 4).v)
             w == Width(ElemType(last.at))
         IN  /\ Fits(le_u64(buf, last.at + 4).v)
             /\ Len(last.v[2]) = n
             /\ \A k \in 1..n :
                  last.v[2][k] =
                    parse_leaf(ElemType(last.at), buf, last.at + 12 + (k - 1) * w).v
             /\ pos = last.at + 12 + n * w
             /\ readTo = pos
    /\ (Failed /\ last.op = "leaf" /\ stack # << >>) =>
         (Top.et \in FixedTypes =>
            IF Fits(Top.len)
            THEN ~Holds(Top.et, Small(Top.len), Top.at + 12)
            ELSE TRUE)

\* C10: the parse of any buffer ends in done or failed, within a number of
\* steps bounded by the buffer length and with the cursor inside the buffer,
\* also when counts exceed the bytes left and arrays are nested in arrays.
StepBound == Len(buf) + Len(buf) \div 12 + 3

C10_Terminates ==
    /\ pos <= Len(buf)
    /\ steps <= StepBound
    /\ pc # "aborted"

====
